---- MODULE Spec2Model ----
(***************************************************************************)
(* Model of the two batch image generators of the vermillion repository:  *)
(*   src/generate_logo.py   (concept x variation runner)                   *)
(*   src/generate_round3.py (keyed-prompt runner)                          *)
(* One behaviour is one invocation of one of the two scripts, optionally   *)
(* followed by a second invocation with the same arguments on the file     *)
(* system the first one left behind.                                       *)
(*                                                                         *)
(* Strings that the code inspects character by character (catalog keys,   *)
(* filter arguments, formatted file names) are sequences of characters.   *)
(* File contents are abstracted to what the code can tell apart:           *)
(*   "png"  bytes PIL can open, "junk" non-empty bytes PIL rejects,        *)
(*   ""     the empty byte string,  "old" a file present before the run.   *)
(* File-system errors (mkdir/open/write failing) are not modelled, a 2xx   *)
(* generation response is taken to be a JSON object whose b64_json, when  *)
(* present, is well-formed base64, and the length of a pause (1 s in      *)
(* run_concept, 1.5 s in the round-3 loop) is not tracked, only that one   *)
(* was taken.                                                              *)
(***************************************************************************)
EXTENDS Integers, Sequences, FiniteSets, TLC

\* ------------------------------------------------------------------ bounds
NumConcepts == 2      \* concepts of the catalog that the model enumerates
MaxVariations == 2    \* largest --variations value enumerated
NumKeys == 2          \* round-3 catalog keys that the model enumerates
MaxArgs == 2          \* longest round-3 filter argument list enumerated
MaxArtifacts == 4     \* most artifacts one enumerated command line requests
MaxIndex == 101       \* largest --variations value of a resumed run

\* ------------------------------------------------------- program constants
MODEL == "gpt-image-1"
FALLBACK_MODEL == "dall-e-3"
API_URL == "https://api.openai.com/v1/images/generations"

None == "None"        \* Python's None (missing value / failure result)
NoFile == "absent"    \* no file at a path

\* CONCEPT_DIRS: concept id -> output sub-directory
CONCEPT_DIRS == [c \in 1..4 |->
    CASE c = 1 -> "concepts/01-kiln-mark"
      [] c = 2 -> "concepts/02-earthen-strata"
      [] c = 3 -> "concepts/03-winding-path"
      [] c = 4 -> "concepts/04-vermillion-leaf"]

\* OUTPUT_DIR of the round-3 runner
OUTPUT_DIR == "concepts/round3"

\* the five variation hints of run_concept, in list order
variation_hints == <<
    " Explore a different compositional arrangement.",
    " Try a bolder, more minimal interpretation.",
    " Emphasize the typography more prominently.",
    " Make the mark/icon more abstract and simplified.",
    " Try a horizontal lockup layout." >>

\* the first keys of PROMPTS, in insertion order, as character sequences
AllKeys == <<
    <<"r","3","-","0","1","-","b","r","i","c","k","-","w","o","r","d","m","a","r","k">>,
    <<"r","3","-","0","2","-","b","r","i","c","k","-","m","o","n","o","g","r","a","m">>,
    <<"r","3","-","0","3","-","b","r","i","c","k","-","m","i","n","i","m","a","l","-","B">>,
    <<"r","3","-","0","4","-","b","r","i","c","k","-","s","t","a","m","p">> >>

PROMPTS_keys == SubSeq(AllKeys, 1, NumKeys)

\* filter arguments the model passes on the round-3 command line
ArgStrings == { <<"0","1">>, <<"w","o","r","d">>, <<"r","3","-">>, <<"z","z">> }

\* ------------------------------------------------------------- pure helpers
RECURSIVE SeqsUpTo(_, _)
SeqsUpTo(S, n) ==
    IF n = 0 THEN { <<>> }
    ELSE LET shorter == SeqsUpTo(S, n - 1)
         IN  shorter \cup { Append(q, x) : q \in { r \in shorter : Len(r) = n - 1 }, x \in S }

\* Python's `arg in k` on strings: arg is a contiguous substring of k
InStr(arg, k) ==
    \E off \in 0..(Len(k) - Len(arg)) :
        \A j \in 1..Len(arg) : k[off + j] = arg[j]

DigitChar(d) == <<"0","1","2","3","4","5","6","7","8","9">>[d + 1]

RECURSIVE Digits(_)
Digits(n) == IF n < 10 THEN <<DigitChar(n)>> ELSE Append(Digits(n \div 10), DigitChar(n % 10))

\* a formatter that keeps the last two digits only
Fmt02d_twoDigits(n) == << DigitChar((n \div 10) % 10), DigitChar(n % 10) >>

\* f"{i:02d}" for i >= 0: decimal digits, left-padded with zeros to width 2
Fmt02d(n) == IF n < 10 THEN <<"0", DigitChar(n)>> ELSE Digits(n)

\* output_dir / f"v{i:02d}.png" of run_concept
ConceptPath(cid, n) == << CONCEPT_DIRS[cid], <<"v">> \o Fmt02d(n) \o <<".png">> >>

\* OUTPUT_DIR / f"{key}.png" of the round-3 main
KeyPath(key) == << OUTPUT_DIR, key \o <<".png">> >>

\* dict helpers on payloads (functions from field name to value)
DictPop(d, k) == [x \in DOMAIN d \ {k} |-> d[x]]
DictSet(d, k, v) == [x \in DOMAIN d \cup {k} |-> IF x = k THEN v ELSE d[x]]

\* a runner that calls save_image whatever generate_image returned
Truthy_always(b) == TRUE

\* a runner that tests `image_bytes is not None`
Truthy_notNone(b) == b # None

\* bytes truthiness: `if image_bytes:` is false for None and for b""
Truthy(b) == b # None /\ b # ""

\* a save that opens the file and never writes the bytes
WriteFile_nothing(f, path, bytes) == f

\* open(output_path, "wb") and f.write(image_bytes)
WriteFile(f, path, bytes) == [f EXCEPT ![path] = bytes]

\* Image.open succeeds exactly on decodable image bytes
ImageOpens(b) == b = "png"

\* base64 text carrying the byte string b, and base64.b64decode
B64(b) == <<"base64", b>>
b64decode(t) == t[2]

\* byte strings an API payload or a download can carry
Blobs == {"png", "junk", ""}

\* first-item shapes of a generation response
Items ==
    { [b64_json |-> B64(b)] : b \in Blobs }
    \cup { [url |-> "https://cdn/img"] }
    \cup { [b64_json |-> B64("png"), url |-> "https://cdn/img"] }
    \cup { [revised_prompt |-> "p"] }

\* JSON bodies of a 2xx generation response
Responses ==
    { [created |-> 0, data |-> <<it>>] : it \in Items }
    \cup { [created |-> 0, data |-> << [revised_prompt |-> "p"], [b64_json |-> B64("png")] >>],
           [created |-> 0, data |-> <<>>],
           [created |-> 0] }

\* a reader that takes the newest item of data instead of the first
FirstItem_last(data) == data[Len(data)]

\* item = data["data"][0]
FirstItem(data) == data[1]

\* what one HTTP exchange can do: 2xx, non-2xx status, or no response at all
Outcomes == {"ok", "status", "transport"}

\* ------------------------------------------------------------------- state
VARIABLES
    prog,            \* which script runs: "logo" or "round3"
    api_key,         \* os.environ.get("OPENAI_API_KEY"): None, "" or a key
    args,            \* parsed command line (argparse namespace / sys.argv[1:])
    fs,              \* path -> file content, NoFile when absent
    dirs,            \* directories that exist
    run,             \* 1 for the first invocation, 2 for the re-run
    prev,            \* what the previous invocation reported (None in run 1)
    pc,              \* control position of the running invocation
    exit_code,       \* process exit status, -1 while the invocation runs
    exc,             \* the uncaught exception that ended the invocation
    todo,            \* concepts_to_run (logo) / keys_to_run (round3)
    cpos,            \* position in concepts_to_run of the current concept
    i,               \* loop index of the current iteration
    success_count,   \* run_concept's success_count / round-3 success
    total_success,   \* main's total_success (logo)
    total_attempted, \* main's total_attempted (logo) / total (round3)
    astate,          \* requested artifact (cpos, i) -> lifecycle state
    payload,         \* the JSON body generate_image is working with
    reqs,            \* network calls issued by the current generate_image
    response,        \* body of the last successful generation response
    image_bytes,     \* what generate_image returned
    net_calls,       \* network calls issued in this invocation
    gen_calls,       \* generate_image calls started in this invocation
    reached_absent,  \* iterations reached while their path held no file
    mkdirs,          \* mkdir calls made in this invocation
    writes,          \* files written in this invocation
    sleeps,          \* time.sleep calls made in this invocation
    paced            \* pacing since the last generating iteration

vars == << prog, api_key, args, fs, dirs, run, prev, pc, exit_code, exc, todo,
           cpos, i, success_count, total_success, total_attempted, astate,
           payload, reqs, response, image_bytes, net_calls, gen_calls,
           reached_absent, mkdirs, writes, sleeps, paced >>

\* keys_to_run of the round-3 main
RECURSIVE MatchKeys(_, _)
MatchKeys(arg, keys) ==
    IF keys = <<>> THEN <<>>
    ELSE (IF InStr(arg, Head(keys)) THEN << Head(keys) >> ELSE <<>>)
         \o MatchKeys(arg, Tail(keys))
RECURSIVE FilterKeys(_, _)
FilterKeys(argv, keys) ==
    IF argv = <<>> THEN <<>>
    ELSE MatchKeys(Head(argv), keys) \o FilterKeys(Tail(argv), keys)
KeysToRun(argv) == IF Len(argv) > 0 THEN FilterKeys(argv, PROMPTS_keys) ELSE PROMPTS_keys

\* concepts_to_run of the logo main
ConceptsToRun(a) == IF a.all THEN [c \in 1..NumConcepts |-> c] ELSE << a.concept >>

\* parsed arguments of generate_logo.py: --list, --concept, --all,
\* --variations, --quality, --size; concept = 0 stands for an absent
\* --concept (argparse leaves it None, and the choices exclude 0).
\* --all wins over --concept (concepts_to_run), so the command lines
\* enumerated give --all without --concept; of the three --quality choices
\* the default and one other are enumerated.
Qualities == {"low", "high"}
LogoArgs ==
    { a \in [ list : BOOLEAN, concept : 0..NumConcepts, all : BOOLEAN,
              variations : (-1)..MaxVariations, quality : Qualities,
              size : {"1024x1024"} ] :
        /\ a.all => a.concept = 0
        /\ a.variations > 0 => Len(ConceptsToRun(a)) * a.variations <= MaxArtifacts }

\* sys.argv[1:] of generate_round3.py
Round3Args ==
    { a \in [ argv : SeqsUpTo(ArgStrings, MaxArgs) ] :
        Len(KeysToRun(a.argv)) <= MaxArtifacts }

\* the paths a command line can read or write; the file system is modelled
\* on these paths only
LogoPaths(a) ==
    IF a.list \/ (a.concept = 0 /\ ~a.all) THEN {}
    ELSE { ConceptPath(ConceptsToRun(a)[k], n) :
                k \in 1..Len(ConceptsToRun(a)), n \in 1..a.variations }
Round3Paths(a) == { KeyPath(KeysToRun(a.argv)[k]) : k \in 1..Len(KeysToRun(a.argv)) }
PathsOf(p, a) == IF p = "logo" THEN LogoPaths(a) ELSE Round3Paths(a)

\* per-invocation state at process start
Fresh ==
    /\ pc = "start"
    /\ exit_code = -1
    /\ exc = None
    /\ todo = <<>>
    /\ cpos = 0
    /\ i = 0
    /\ success_count = 0
    /\ total_success = 0
    /\ total_attempted = 0
    /\ astate = <<>>
    /\ payload = None
    /\ reqs = <<>>
    /\ response = None
    /\ image_bytes = None
    /\ net_calls = 0
    /\ gen_calls = 0
    /\ reached_absent = 0
    /\ mkdirs = 0
    /\ writes = 0
    /\ sleeps = 0
    /\ paced = "first"

Init ==
    /\ prog \in {"logo", "round3"}
    /\ api_key \in {None, "", "sk-key"}
    /\ args \in (IF prog = "logo" THEN LogoArgs ELSE Round3Args)
    /\ fs \in [PathsOf(prog, args) -> {NoFile, "old"}]
    /\ dirs = { p[1] : p \in { q \in DOMAIN fs : fs[q] # NoFile } }
    /\ run = 1
    /\ prev = None
    /\ Fresh

\* ------------------------------------------------------ derived quantities
\* a variation loop that stops one short: range(1, variations)
LoopLen_offByOne == IF prog = "logo" THEN args.variations - 1 ELSE Len(todo)

\* number of iterations of the loop that is running
LoopLen == IF prog = "logo" THEN args.variations ELSE Len(todo)

\* the artifact the current iteration is about
Slot == << cpos, i >>

\* output path of artifact (k, n) of this invocation
PathOf(k, n) == IF prog = "logo" THEN ConceptPath(todo[k], n) ELSE KeyPath(todo[n])
output_path == PathOf(cpos, i)

\* a runner without the exists check
PathExists_never(f, path) == FALSE

\* output_path.exists()
PathExists(f, path) == f[path] # NoFile

\* a hint choice that starts one entry too far
VariationSuffix_fromSecond(n) ==
    IF n > 1 THEN variation_hints[((n - 1) % Len(variation_hints)) + 1] ELSE ""

\* concept["prompt"] + variation_suffix, kept as the pair of its two parts
VariationSuffix(n) ==
    IF n > 1 THEN variation_hints[((n - 2) % Len(variation_hints)) + 1] ELSE ""
PromptFor(k, n) ==
    IF prog = "logo" THEN << "CONCEPT_PROMPTS", todo[k], VariationSuffix(n) >>
    ELSE << "PROMPTS", todo[n], "" >>

\* a primary payload that does not ask for an output format
PrimaryPayload_noFormat(prompt, size, quality) ==
    [ model |-> MODEL, prompt |-> prompt, size |-> size, quality |-> quality, n |-> 1 ]

\* the payload generate_image builds for the primary model
PrimaryPayload(prompt, size, quality) ==
    [ model |-> MODEL, prompt |-> prompt, size |-> size, quality |-> quality,
      n |-> 1, output_format |-> "png" ]

\* a fallback that only swaps the model name and keeps output_format
FallbackPayload_keepsShape(pl) == DictSet(pl, "model", FALLBACK_MODEL)

\* the in-place rewrite of the payload before the fallback call
FallbackPayload(pl) ==
    DictSet(DictPop(DictSet(pl, "model", FALLBACK_MODEL), "output_format"),
            "response_format", "b64_json")

\* a credential check that only looks for an absent variable
KeyMissing_unsetOnly(k) == k = None

\* `not api_key`
KeyMissing(k) == k = None \/ k = ""

\* sys.exit(1) and an uncaught exception both end the process
Exit(code) == /\ pc' = "exited" /\ exit_code' = code /\ exc' = exc
Crash(e) == /\ pc' = "crashed" /\ exit_code' = 1 /\ exc' = e
Goto(l) == /\ pc' = l /\ exit_code' = exit_code /\ exc' = exc
\* an ending whose exit status tells whether every image was made
Return_strict ==
    /\ pc' = "done"
    /\ exit_code' = IF prog = "logo" /\ total_success < total_attempted THEN 1 ELSE 0
    /\ exc' = exc

Return == /\ pc' = "done" /\ exit_code' = 0 /\ exc' = exc

inputs == << prog, api_key, args, run, prev >>
call == << payload, reqs, response, image_bytes >>
effects == << fs, dirs, net_calls, mkdirs, writes, sleeps >>
counters == << success_count, total_success, total_attempted >>
started == << gen_calls, reached_absent >>

\* one more iteration reached, counted when its path holds no file
Reached(f, path) == reached_absent + (IF f[path] = NoFile THEN 1 ELSE 0)

\* one HTTP exchange: the request and how it ended
Exchange(method, url, body, outcome) ==
    [ method |-> method, url |-> url, json |-> body, outcome |-> outcome ]

\* img_resp.content: the body a successful download exchange carried
Fetched(x, content) == [ f \in DOMAIN x \cup {"content"} |->
                            IF f = "content" THEN content ELSE x[f] ]

\* ----------------------------------------------------------------- actions
\* generate_logo.py main(), up to the loop over concepts_to_run
MainLogo ==
    /\ pc = "start" /\ prog = "logo"
    /\ IF args.list THEN
            Return /\ UNCHANGED << todo, cpos, astate >>
       ELSE IF args.concept = 0 /\ ~args.all THEN
            Exit(1) /\ UNCHANGED << todo, cpos, astate >>
       ELSE IF KeyMissing(api_key) THEN
            Exit(1) /\ UNCHANGED << todo, cpos, astate >>
       ELSE /\ todo' = ConceptsToRun(args)
            /\ cpos' = 1
            /\ astate' = [ s \in (1..Len(todo')) \X (1..args.variations) |-> "Pending" ]
            /\ Goto("concept")
    /\ UNCHANGED << inputs, call, effects, counters, started, i, paced >>

\* generate_round3.py main(), up to the loop over keys_to_run
MainRound3 ==
    /\ pc = "start" /\ prog = "round3"
    /\ IF KeyMissing(api_key) THEN
            Exit(1) /\ UNCHANGED << todo, cpos, i, astate, dirs, mkdirs, total_attempted >>
       ELSE /\ dirs' = dirs \cup {OUTPUT_DIR}
            /\ mkdirs' = mkdirs + 1
            /\ todo' = KeysToRun(args.argv)
            /\ total_attempted' = Len(todo')
            /\ cpos' = 1
            /\ i' = 1
            /\ astate' = [ s \in {1} \X (1..Len(todo')) |-> "Pending" ]
            /\ Goto("loop")
    /\ UNCHANGED << inputs, call, started, fs, net_calls, writes, sleeps,
                    success_count, total_success, paced >>

\* `for cid in concepts_to_run`: enter run_concept, or report and return
ForConcept ==
    /\ pc = "concept"
    /\ IF cpos <= Len(todo) THEN
            /\ dirs' = dirs \cup { CONCEPT_DIRS[todo[cpos]] }
            /\ mkdirs' = mkdirs + 1
            /\ success_count' = 0
            /\ i' = 1
            /\ Goto("loop")
       ELSE /\ Return
            /\ UNCHANGED << dirs, mkdirs, success_count, i >>
    /\ UNCHANGED << inputs, call, started, fs, net_calls, writes, sleeps, todo,
                    cpos, total_success, total_attempted, astate, paced >>

\* the loop is exhausted: run_concept returns to main / round-3 reports
LoopExit ==
    /\ pc = "loop" /\ i > LoopLen
    /\ IF prog = "logo" THEN
            /\ total_success' = total_success + success_count
            /\ total_attempted' = total_attempted + args.variations
            /\ cpos' = cpos + 1
            /\ Goto("concept")
       ELSE /\ Return
            /\ UNCHANGED << total_success, total_attempted, cpos >>
    /\ UNCHANGED << inputs, call, effects, started, todo, i, success_count,
                    astate, paced >>

\* the output path already holds a file: count it and `continue`
SkipExisting ==
    /\ pc = "loop" /\ i <= LoopLen
    /\ PathExists(fs, output_path)
    /\ success_count' = success_count + 1
    /\ astate' = [astate EXCEPT ![Slot] = "SkippedExists"]
    /\ i' = i + 1
    /\ reached_absent' = Reached(fs, output_path)
    /\ Goto("loop")
    /\ UNCHANGED << inputs, call, effects, gen_calls, todo, cpos, total_success,
                    total_attempted, paced >>

\* the output path is free: build the prompt and call generate_image
StartGenerate ==
    /\ pc = "loop" /\ i <= LoopLen
    /\ ~PathExists(fs, output_path)
    /\ astate' = [astate EXCEPT ![Slot] = "Requesting"]
    /\ payload' = PrimaryPayload(PromptFor(cpos, i),
                                 IF prog = "logo" THEN args.size ELSE "1024x1024",
                                 IF prog = "logo" THEN args.quality ELSE "high")
    /\ reqs' = <<>>
    /\ gen_calls' = gen_calls + 1
    /\ reached_absent' = Reached(fs, output_path)
    /\ paced' = "no"
    /\ Goto("post_primary")
    /\ UNCHANGED << inputs, effects, counters, todo, cpos, i, response, image_bytes >>

\* client.post with the primary payload, and raise_for_status
PrimaryPost ==
    /\ pc = "post_primary"
    /\ net_calls' = net_calls + 1
    /\ \E o \in Outcomes :
        /\ reqs' = Append(reqs, Exchange("POST", API_URL, payload, o))
        /\ CASE o = "ok" ->
                /\ \E body \in Responses : response' = body
                /\ image_bytes' = image_bytes
                /\ Goto("parse")
          [] o = "status" ->
                /\ response' = response
                /\ IF MODEL # FALLBACK_MODEL
                   THEN Goto("post_fallback") /\ image_bytes' = image_bytes
                   ELSE Goto("returned") /\ image_bytes' = None
          [] o = "transport" ->
                /\ Crash("httpx.TransportError")
                /\ UNCHANGED << response, image_bytes >>
    /\ UNCHANGED << inputs, counters, started, fs, dirs, mkdirs, writes, sleeps, todo,
                    cpos, i, astate, payload, paced >>

\* the except branch: rewrite the payload, post again, raise_for_status
FallbackPost ==
    /\ pc = "post_fallback"
    /\ payload' = FallbackPayload(payload)
    /\ net_calls' = net_calls + 1
    /\ \E o \in Outcomes :
        /\ reqs' = Append(reqs, Exchange("POST", API_URL, payload', o))
        /\ CASE o = "ok" ->
                /\ \E body \in Responses : response' = body
                /\ image_bytes' = image_bytes
                /\ Goto("parse")
          [] o = "status" ->
                /\ response' = response
                /\ image_bytes' = None
                /\ Goto("returned")
          [] o = "transport" ->
                /\ Crash("httpx.TransportError")
                /\ UNCHANGED << response, image_bytes >>
    /\ UNCHANGED << inputs, counters, started, fs, dirs, mkdirs, writes, sleeps, todo,
                    cpos, i, astate, paced >>

\* a reader that follows a url whenever the item carries one
ParseResponse_urlFirst ==
    /\ pc = "parse"
    /\ IF "data" \in DOMAIN response /\ Len(response.data) > 0 THEN
            LET item == FirstItem(response.data) IN
            IF "url" \in DOMAIN item THEN
                /\ image_bytes' = image_bytes
                /\ Goto("download")
            ELSE IF "b64_json" \in DOMAIN item THEN
                /\ image_bytes' = b64decode(item.b64_json)
                /\ Goto("returned")
            ELSE
                /\ image_bytes' = None
                /\ Goto("returned")
       ELSE /\ image_bytes' = None
            /\ Goto("returned")
    /\ UNCHANGED << inputs, effects, counters, started, todo, cpos, i, astate,
                    payload, reqs, response, paced >>

\* response.json() and the choice between b64_json, url and neither
ParseResponse ==
    /\ pc = "parse"
    /\ IF "data" \in DOMAIN response /\ Len(response.data) > 0 THEN
            LET item == FirstItem(response.data) IN
            IF "b64_json" \in DOMAIN item THEN
                /\ image_bytes' = b64decode(item.b64_json)
                /\ Goto("returned")
            ELSE IF "url" \in DOMAIN item THEN
                /\ image_bytes' = image_bytes
                /\ Goto("download")
            ELSE
                /\ image_bytes' = None
                /\ Goto("returned")
       ELSE /\ image_bytes' = None
            /\ Goto("returned")
    /\ UNCHANGED << inputs, effects, counters, started, todo, cpos, i, astate,
                    payload, reqs, response, paced >>

\* dl_client.get(item["url"]), raise_for_status, return img_resp.content
Download ==
    /\ pc = "download"
    /\ net_calls' = net_calls + 1
    /\ \E o \in Outcomes :
        LET get == Exchange("GET", FirstItem(response.data).url, None, o) IN
        CASE o = "ok" ->
                /\ \E content \in Blobs :
                    /\ reqs' = Append(reqs, Fetched(get, content))
                    /\ image_bytes' = content
                /\ Goto("returned")
          [] o = "status" ->
                /\ reqs' = Append(reqs, get)
                /\ Crash("httpx.HTTPStatusError")
                /\ image_bytes' = image_bytes
          [] o = "transport" ->
                /\ reqs' = Append(reqs, get)
                /\ Crash("httpx.TransportError")
                /\ image_bytes' = image_bytes
    /\ UNCHANGED << inputs, counters, started, fs, dirs, mkdirs, writes, sleeps, todo,
                    cpos, i, astate, payload, response, paced >>

\* a runner that sends a failed variation round the loop again
HandleResult_retriesFailure ==
    /\ pc = "returned"
    /\ IF Truthy(image_bytes) THEN
            /\ dirs' = dirs \cup { output_path[1] }
            /\ mkdirs' = mkdirs + 1
            /\ fs' = WriteFile(fs, output_path, image_bytes)
            /\ writes' = writes + 1
            /\ IF ImageOpens(image_bytes) THEN
                    /\ success_count' = success_count + 1
                    /\ astate' = [astate EXCEPT ![Slot] = "Persisted"]
                    /\ Goto("pace")
               ELSE /\ Crash("PIL.UnidentifiedImageError")
                    /\ UNCHANGED << success_count, astate >>
       ELSE /\ astate' = [astate EXCEPT ![Slot] = "Failed"]
            /\ Goto("loop")
            /\ UNCHANGED << fs, dirs, mkdirs, writes, success_count >>
    /\ payload' = None
    /\ reqs' = <<>>
    /\ response' = None
    /\ image_bytes' = None
    /\ UNCHANGED << inputs, started, net_calls, sleeps, total_success,
                    total_attempted, todo, cpos, i, paced >>

\* `if image_bytes:` save_image (mkdir, write, Image.open) and count,
\* else report the failure
HandleResult ==
    /\ pc = "returned"
    /\ IF Truthy(image_bytes) THEN
            /\ dirs' = dirs \cup { output_path[1] }
            /\ mkdirs' = mkdirs + 1
            /\ fs' = WriteFile(fs, output_path, image_bytes)
            /\ writes' = writes + 1
            /\ IF ImageOpens(image_bytes) THEN
                    /\ success_count' = success_count + 1
                    /\ astate' = [astate EXCEPT ![Slot] = "Persisted"]
                    /\ Goto("pace")
               ELSE /\ Crash("PIL.UnidentifiedImageError")
                    /\ UNCHANGED << success_count, astate >>
       ELSE /\ astate' = [astate EXCEPT ![Slot] = "Failed"]
            /\ Goto("pace")
            /\ UNCHANGED << fs, dirs, mkdirs, writes, success_count >>
    /\ payload' = None
    /\ reqs' = <<>>
    /\ response' = None
    /\ image_bytes' = None
    /\ UNCHANGED << inputs, started, net_calls, sleeps, total_success,
                    total_attempted, todo, cpos, i, paced >>

\* a loop that pauses after every generating iteration, the last included
Pace_everyIteration ==
    /\ pc = "pace"
    /\ sleeps' = sleeps + 1 /\ paced' = "yes"
    /\ i' = i + 1
    /\ Goto("loop")
    /\ UNCHANGED << inputs, call, counters, started, fs, dirs, net_calls, mkdirs,
                    writes, todo, cpos, astate >>

\* `if i < variations: time.sleep(...)`, then the next iteration
Pace ==
    /\ pc = "pace"
    /\ IF i < LoopLen
       THEN sleeps' = sleeps + 1 /\ paced' = "yes"
       ELSE sleeps' = sleeps /\ paced' = paced
    /\ i' = i + 1
    /\ Goto("loop")
    /\ UNCHANGED << inputs, call, counters, started, fs, dirs, net_calls, mkdirs,
                    writes, todo, cpos, astate >>

\* what the invocation reports as succeeded/attempted
Succeeded == IF prog = "logo" THEN total_success ELSE success_count
Attempted == total_attempted

\* what an ended invocation printed on its DONE line; an invocation that
\* died of an uncaught exception printed none
Report ==
    IF pc = "done"
    THEN [ ended |-> "done", succeeded |-> Succeeded, attempted |-> Attempted ]
    ELSE [ ended |-> pc, succeeded |-> -1, attempted |-> -1 ]

\* a new process: every per-invocation variable is back at its Fresh value
Restart ==
    /\ pc' = "start"
    /\ exit_code' = -1
    /\ exc' = None
    /\ todo' = <<>>
    /\ cpos' = 0
    /\ i' = 0
    /\ success_count' = 0
    /\ total_success' = 0
    /\ total_attempted' = 0
    /\ astate' = <<>>
    /\ payload' = None
    /\ reqs' = <<>>
    /\ response' = None
    /\ image_bytes' = None
    /\ net_calls' = 0
    /\ gen_calls' = 0
    /\ reached_absent' = 0
    /\ mkdirs' = 0
    /\ writes' = 0
    /\ sleeps' = 0
    /\ paced' = "first"

\* the same command line is run once more on the files left behind
Rerun ==
    /\ run = 1
    /\ pc \in {"done", "crashed"}
    /\ run' = 2
    /\ prev' = Report
    /\ Restart
    /\ UNCHANGED << prog, api_key, args, fs, dirs >>

Next ==
    \/ MainLogo
    \/ MainRound3
    \/ ForConcept
    \/ LoopExit
    \/ SkipExisting
    \/ StartGenerate
    \/ PrimaryPost
    \/ FallbackPost
    \/ ParseResponse
    \/ Download
    \/ HandleResult
    \/ Pace
    \/ Rerun

Spec == Init /\ [][Next]_vars

\* ---------------------------------------------------------- resumed runs
\* The same program started on a directory that a previous run filled up to
\* the last artifact: every requested path but the last holds a file, so the
\* run skips to the last index and generates there.  The --variations
\* values go up to MaxIndex, past the width of the {i:02d} format and past
\* the length of the hint list.
ResumeArgs ==
    { [ list |-> FALSE, concept |-> c, all |-> FALSE, variations |-> v,
        quality |-> "high", size |-> "1024x1024" ] :
        c \in 1..NumConcepts, v \in 1..MaxIndex }

LastPath(p, a) ==
    IF p = "logo" THEN ConceptPath(a.concept, a.variations)
    ELSE KeyPath(KeysToRun(a.argv)[Len(KeysToRun(a.argv))])

InitResume ==
    /\ prog \in {"logo", "round3"}
    /\ api_key = "sk-key"
    /\ args \in (IF prog = "logo" THEN ResumeArgs ELSE Round3Args)
    /\ fs = [ p \in PathsOf(prog, args) |->
                IF p = LastPath(prog, args) THEN NoFile ELSE "old" ]
    /\ dirs = { p[1] : p \in { q \in DOMAIN fs : fs[q] # NoFile } }
    /\ run = 1
    /\ prev = None
    /\ Fresh

SpecResume == InitResume /\ [][Next]_vars

\* ------------------------------------- generate_image of generate_round3.py
\* The copy of generate_image in generate_round3.py, written as a function
\* of its arguments and of the script of what the network does: script[k]
\* is the outcome of the k-th call the function issues, with the body of a
\* 2xx answer.  It gives the requests issued, the value returned, and the
\* exception that left the function, if one did.
r3_API_URL == "https://api.openai.com/v1/images/generations"
r3_MODEL == "gpt-image-1"
r3_FALLBACK_MODEL == "dall-e-3"

\* httpx.Client(timeout=...) of the two scripts, in seconds
ClientTimeout(p, method) ==
    IF method = "GET" THEN 60 ELSE IF p = "logo" THEN 120 ELSE 180

r3_Ended(requests, result, raised) ==
    [ requests |-> requests, result |-> result, raised |-> raised ]

r3_Request(method, url, body, outcome) ==
    [ method |-> method, url |-> url, json |-> body, outcome |-> outcome ]

\* data = response.json() and what follows it
r3_AfterResponse(requests, data, rest) ==
    IF "data" \in DOMAIN data /\ Len(data.data) > 0 THEN
        LET item == data.data[1] IN
        IF "b64_json" \in DOMAIN item THEN
            r3_Ended(requests, b64decode(item.b64_json), None)
        ELSE IF "url" \in DOMAIN item THEN
            LET d == rest[1]
                sent == Append(requests, r3_Request("GET", item.url, None, d.outcome))
            IN  IF d.outcome = "ok" THEN r3_Ended(sent, d.body, None)
                ELSE IF d.outcome = "status"
                THEN r3_Ended(sent, None, "httpx.HTTPStatusError")
                ELSE r3_Ended(sent, None, "httpx.TransportError")
        ELSE r3_Ended(requests, None, None)
    ELSE r3_Ended(requests, None, None)

r3_generate_image(prompt, size, quality, script) ==
    LET pl == [ model |-> r3_MODEL, prompt |-> prompt, size |-> size,
                     quality |-> quality, n |-> 1, output_format |-> "png" ]
        first == << r3_Request("POST", r3_API_URL, pl, script[1].outcome) >>
    IN  IF script[1].outcome = "ok" THEN
            r3_AfterResponse(first, script[1].body, Tail(script))
        ELSE IF script[1].outcome = "transport" THEN
            r3_Ended(first, None, "httpx.TransportError")
        ELSE IF r3_MODEL # r3_FALLBACK_MODEL THEN
            LET pl2 ==
                    DictSet(DictPop(DictSet(pl, "model", r3_FALLBACK_MODEL),
                                    "output_format"),
                            "response_format", "b64_json")
                second == Append(first, r3_Request("POST", r3_API_URL, pl2,
                                                   script[2].outcome))
            IN  IF script[2].outcome = "ok" THEN
                    r3_AfterResponse(second, script[2].body, Tail(Tail(script)))
                ELSE IF script[2].outcome = "status" THEN
                    r3_Ended(second, None, None)
                ELSE r3_Ended(second, None, "httpx.TransportError")
        ELSE r3_Ended(first, None, None)

\* ------------------------------------------------------------ vocabulary
TerminalStates == {"SkippedExists", "Persisted", "Failed"}
ArtifactStates == {"Pending", "Requesting"} \cup TerminalStates

\* a generation request for the fallback model, in the fallback's shape
IsFallbackRequest(r, prompt) ==
    /\ r.method = "POST"
    /\ r.url = API_URL
    /\ r.json.model = FALLBACK_MODEL
    /\ r.json.prompt = prompt
    /\ "response_format" \in DOMAIN r.json
    /\ r.json.response_format = "b64_json"
    /\ "output_format" \notin DOMAIN r.json

\* the primary call of the current generate_image ended as given
PrimaryEnded(o) == Len(reqs) >= 1 /\ reqs[1].outcome = o

\* ------------------------------------------------------------------ C1
\* C1: when the primary request of generate_image gets a non-success status,
\* the next request is the one fallback request (same prompt, model set to
\* the fallback model, response_format = b64_json, no output_format); no
\* other generation request follows it, and when the fallback also gets a
\* non-success status no request at all follows and the result is None.
C1_FallbackOnce ==
    PrimaryEnded("status") =>
        /\ reqs[1].json.model = MODEL
        /\ pc # "post_fallback" => Len(reqs) >= 2
        /\ Len(reqs) >= 2 => IsFallbackRequest(reqs[2], reqs[1].json.prompt)
        /\ \A k \in 3..Len(reqs) : reqs[k].method = "GET"
        /\ (Len(reqs) >= 2 /\ reqs[2].outcome = "status") =>
                /\ Len(reqs) = 2
                /\ pc = "returned"
                /\ image_bytes = None

\* both models answered with a non-success status
C1_Witness ==
    /\ pc = "returned"
    /\ Len(reqs) = 2
    /\ reqs[1].outcome = "status"
    /\ reqs[2].outcome = "status"
    /\ image_bytes = None

\* ------------------------------------------------------------------ C2
\* C2: a transport-level exception on the primary call ends in a Failure for
\* that variation (the artifact is marked Failed, the process lives on) and
\* no further network call is made for it.
C2_TransportBecomesFailure ==
    PrimaryEnded("transport") =>
        /\ Len(reqs) = 1
        /\ astate[Slot] = "Failed"

\* ------------------------------------------------------------------ C3
\* C3: every per-image error is caught per image: no invocation dies of an
\* exception, so the batch goes on to the remaining artifacts.
C3_NoErrorEndsTheProcess == pc # "crashed" /\ exc = None

\* ------------------------------------------------------------------ C4
\* C4: when generate_image returns None, handling the result leaves every
\* success counter as it was, marks the variation Failed and moves on to the
\* pacing step of the same loop; an invocation that had a Failed variation
\* and ran to its end has no artifact left Pending.
C4_FailureStep ==
    (pc = "returned" /\ image_bytes = None) =>
        /\ success_count' = success_count
        /\ total_success' = total_success
        /\ astate' = [astate EXCEPT ![Slot] = "Failed"]
        /\ pc' = "pace"
        /\ exc' = None
        /\ << i, cpos, todo >>' = << i, cpos, todo >>

C4_BatchNotAborted ==
    (pc = "done" /\ \E s \in DOMAIN astate : astate[s] = "Failed") =>
        \A s \in DOMAIN astate : astate[s] \in TerminalStates

C4_FailureDoesNotAbort == [][C4_FailureStep]_vars /\ []C4_BatchNotAborted

\* a variation failed and a later variation of a later concept was persisted
C4_Witness ==
    /\ prog = "logo"
    /\ pc = "done"
    /\ \E s, t \in DOMAIN astate :
        /\ s[1] < t[1]
        /\ astate[s] = "Failed"
        /\ astate[t] = "Persisted"

\* ------------------------------------------------------------------ C5
\* C5 as claimed: after an invocation that ran to its DONE line, a second
\* invocation with the same arguments issues no network call and reports
\* the same succeeded/attempted counts.
C5_RerunSameCounts ==
    (run = 2 /\ prev.ended = "done") =>
        /\ net_calls = 0
        /\ pc = "done" => (Succeeded = prev.succeeded /\ Attempted = prev.attempted)

\* C5 as amended: when the first invocation ran to its DONE line with
\* succeeded = attempted, the second invocation with the same arguments
\* issues no network call, dies of no exception and reports the same counts.
C5_RerunAfterFullSuccess ==
    (run = 2 /\ prev.ended = "done" /\ prev.succeeded = prev.attempted) =>
        /\ net_calls = 0
        /\ pc # "crashed"
        /\ pc = "done" => (Succeeded = prev.succeeded /\ Attempted = prev.attempted)

\* a second run over files the first run generated, all of them skipped
C5_Witness ==
    /\ run = 2
    /\ pc = "done"
    /\ prev.ended = "done"
    /\ prev.attempted >= 2
    /\ prev.succeeded = prev.attempted
    /\ Succeeded = prev.succeeded
    /\ \E p \in DOMAIN fs : fs[p] = "png"

\* ------------------------------------------------------------------ C6
\* C6: an iteration whose path holds a file counts one success, issues no
\* network call, starts no generation and leaves the file system as it is;
\* and the generation requests started in an invocation are as many as the
\* iterations that were reached while their path held no file.
C6_SkipStep ==
    (pc = "loop" /\ i <= LoopLen /\ fs[output_path] # NoFile) =>
        /\ success_count' = success_count + 1
        /\ astate' = [astate EXCEPT ![Slot] = "SkippedExists"]
        /\ net_calls' = net_calls
        /\ gen_calls' = gen_calls
        /\ fs' = fs

C6_StartedCount == gen_calls = reached_absent

C6_SkipIfExists == [][C6_SkipStep]_vars /\ []C6_StartedCount

\* a finished first run that skipped an existing file and generated another
C6_Witness ==
    /\ run = 1
    /\ pc = "done"
    /\ gen_calls >= 1
    /\ \E s \in DOMAIN astate :
        astate[s] = "SkippedExists" /\ fs[PathOf(s[1], s[2])] = "old"

\* ------------------------------------------------------------------ C7
\* C7: no artifact counted as succeeded (skipped as existing, or persisted)
\* has a file of undecodable bytes at its path, in the run that received
\* the bytes or in a re-run.
C7_JunkNeverSucceeds ==
    \A s \in DOMAIN astate :
        astate[s] \in {"SkippedExists", "Persisted"} => fs[PathOf(s[1], s[2])] # "junk"

\* ------------------------------------------------------------------ C8
\* C8: every requested artifact is in one of the five lifecycle states, at
\* most one is Requesting, and within an invocation an artifact only moves
\* Pending -> SkippedExists, Pending -> Requesting, Requesting -> Persisted
\* or Requesting -> Failed; the set of requested artifacts is fixed once
\* main has computed it.
Moves == { <<"Pending", "SkippedExists">>, <<"Pending", "Requesting">>,
           <<"Requesting", "Persisted">>, <<"Requesting", "Failed">> }

C8_States ==
    /\ \A s \in DOMAIN astate : astate[s] \in ArtifactStates
    /\ Cardinality({ s \in DOMAIN astate : astate[s] = "Requesting" }) <= 1

C8_Step ==
    (run' = run /\ pc # "start") =>
        /\ DOMAIN astate' = DOMAIN astate
        /\ \A s \in DOMAIN astate :
            astate'[s] = astate[s] \/ << astate[s], astate'[s] >> \in Moves

C9_StartStep == (pc = "loop" /\ pc' = "post_primary") => paced \in {"first", "yes"}
C9_SleepStep == sleeps' > sleeps => (pc = "pace" /\ astate[Slot] \in {"Persisted", "Failed"})
C9_NoneBeforeFirst == gen_calls = 0 => sleeps = 0

C9_PauseBetweenGenerations ==
    [][C9_StartStep /\ C9_SleepStep]_vars /\ []C9_NoneBeforeFirst

\* ------------------------------------------------------------------ C10
\* C10: with OPENAI_API_KEY unset or empty and generation requested, the
\* invocation never gets past the credential check: it issues no network
\* call, makes no directory, writes no file, and ends with status 1.
GenerationRequested ==
    prog = "round3" \/ (~args.list /\ (args.concept # 0 \/ args.all))

C10_State ==
    (api_key \in {None, ""} /\ GenerationRequested) =>
        /\ pc \in {"start", "exited"}
        /\ net_calls = 0 /\ gen_calls = 0 /\ mkdirs = 0 /\ writes = 0
        /\ pc = "exited" => exit_code = 1

C10_Step ==
    (api_key \in {None, ""} /\ GenerationRequested) =>
        (fs' = fs /\ dirs' = dirs /\ (pc = "start" => pc' = "exited"))

C10_MissingKeyIsFatal == []C10_State /\ [][C10_Step]_vars

\* the round-3 runner stopped on an empty key with files still to make
C10_Witness ==
    /\ pc = "exited"
    /\ exit_code = 1
    /\ api_key = ""
    /\ GenerationRequested
    /\ \E p \in DOMAIN fs : fs[p] = NoFile

\* ------------------------------------------------------------------ C11
\* C11: one generate_image call issues at most three network calls: first
\* the primary POST; a second POST only as call number two, for the
\* fallback model, after a non-success status of the primary; a GET only
\* as the last call, right after a generation POST that succeeded and
\* whose first item has a url and no b64_json.
LastIs(method) == Len(reqs) >= 1 /\ reqs[Len(reqs)].method = method

C11_AtMostThreeCalls ==
    /\ Len(reqs) <= 3
    /\ Len(reqs) >= 1 => (reqs[1].method = "POST" /\ reqs[1].json.model = MODEL)
    /\ \A k \in 2..Len(reqs) :
        /\ reqs[k].method \in {"POST", "GET"}
        /\ reqs[k].method = "POST" =>
                /\ k = 2
                /\ reqs[2].json.model = FALLBACK_MODEL
                /\ reqs[1].outcome = "status"
        /\ reqs[k].method = "GET" =>
                /\ k = Len(reqs)
                /\ reqs[k - 1].method = "POST"
                /\ reqs[k - 1].outcome = "ok"
                /\ "url" \in DOMAIN response.data[1]
                /\ "b64_json" \notin DOMAIN response.data[1]
                /\ reqs[k].url = response.data[1].url

\* primary refused, fallback answered with a url, the download succeeded
C11_Witness ==
    /\ pc = "returned"
    /\ Len(reqs) = 3
    /\ reqs[3].method = "GET"
    /\ reqs[3].outcome = "ok"

\* ------------------------------------------------------------------ C12
\* C12: when generate_image has returned after a generation POST that
\* succeeded, the result is decided by the first item of data alone: with a
\* b64_json it is the decoded payload and no GET was made; else with a url
\* it is the content of the GET made to that url; and with data missing or
\* empty, or a first item with neither field, it is None and no GET was
\* made.
LastPost == IF Len(reqs) >= 2 /\ reqs[2].method = "POST" THEN reqs[2] ELSE reqs[1]

C12_FirstItemDecides ==
    (pc = "returned" /\ Len(reqs) >= 1 /\ LastPost.outcome = "ok") =>
        IF "data" \in DOMAIN response /\ response.data # <<>> THEN
            IF "b64_json" \in DOMAIN response.data[1] THEN
                /\ image_bytes = response.data[1].b64_json[2]
                /\ ~LastIs("GET")
            ELSE IF "url" \in DOMAIN response.data[1] THEN
                /\ LastIs("GET")
                /\ reqs[Len(reqs)].url = response.data[1].url
                /\ image_bytes = reqs[Len(reqs)].content
            ELSE image_bytes = None /\ ~LastIs("GET")
        ELSE image_bytes = None /\ ~LastIs("GET")

\* a response of two items whose first has neither field gave None
C12_Witness ==
    /\ pc = "returned"
    /\ Len(reqs) = 1
    /\ reqs[1].outcome = "ok"
    /\ "data" \in DOMAIN response
    /\ Len(response.data) = 2
    /\ image_bytes = None

\* ------------------------------------------------------------------ C13
\* C13: a first run of one concept with N >= 1 variations, no file there
\* beforehand and every generate_image call returning an image that opens:
\* each such result is persisted at the variation's path and counted, and
\* the ended run has made exactly N generate_image calls and N writes, the
\* files present are exactly v01.png .. v0N.png of that concept, and the
\* report is N/N.
NoFilesBefore == run = 1 /\ \A p \in DOMAIN fs : fs[p] # "old"

VariationFile(cid, n) == << CONCEPT_DIRS[cid], <<"v", "0", DigitChar(n), ".png">> >>

C13_DecodableStep ==
    (pc = "returned" /\ image_bytes = "png") =>
        /\ astate'[Slot] = "Persisted"
        /\ fs'[output_path] = "png"
        /\ success_count' = success_count + 1
        /\ pc' = "pace"

C13_End ==
    ( /\ pc = "done" /\ prog = "logo" /\ ~args.list /\ args.concept # 0
      /\ args.variations \in 1..9
      /\ NoFilesBefore
      /\ \A s \in DOMAIN astate : astate[s] # "Failed" ) =>
        /\ gen_calls = args.variations
        /\ net_calls >= args.variations
        /\ writes = args.variations
        /\ { p \in DOMAIN fs : fs[p] # NoFile }
             = { VariationFile(args.concept, n) : n \in 1..args.variations }
        /\ \A n \in 1..args.variations : fs[VariationFile(args.concept, n)] = "png"
        /\ Succeeded = args.variations
        /\ Attempted = args.variations

C13_AllVariationsCreated == [][C13_DecodableStep]_vars /\ []C13_End

\* two variations of one concept, nothing there before, both generated
C13_Witness ==
    /\ pc = "done" /\ prog = "logo" /\ args.concept # 0
    /\ args.variations = MaxVariations
    /\ NoFilesBefore
    /\ gen_calls = MaxVariations
    /\ Succeeded = MaxVariations

\* ------------------------------------------------------------------ C14
\* C14: a generate_image call refused with a non-success status by both the
\* primary and the fallback model marks its variation Failed, writes
\* nothing and lets the loop go on; and a generate_logo run that ended with
\* exactly one Failed variation reports one less than attempted, has a file
\* at every other variation's path and none at the failed one, and ends
\* with exit status 0.
BothRefused ==
    /\ pc = "returned"
    /\ Len(reqs) = 2
    /\ reqs[1].outcome = "status"
    /\ reqs[2].outcome = "status"

C14_RefusedStep ==
    BothRefused =>
        /\ astate'[Slot] = "Failed"
        /\ fs' = fs
        /\ success_count' = success_count
        /\ pc' = "pace"

FailedSlots == { s \in DOMAIN astate : astate[s] = "Failed" }

C14_End ==
    (pc = "done" /\ prog = "logo" /\ Cardinality(FailedSlots) = 1) =>
        /\ Attempted = Len(todo) * args.variations
        /\ Succeeded = Attempted - 1
        /\ \A s \in DOMAIN astate :
            (fs[PathOf(s[1], s[2])] = NoFile) <=> (s \in FailedSlots)
        /\ exit_code = 0
        /\ exc = None

C14_OneFailureIsNotFatal == [][C14_RefusedStep]_vars /\ []C14_End

\* one concept, two variations: one failed, one persisted, status 0
C14_Witness ==
    /\ pc = "done" /\ prog = "logo" /\ args.concept # 0
    /\ args.variations = MaxVariations
    /\ Cardinality(FailedSlots) = 1
    /\ Succeeded = MaxVariations - 1
    /\ exit_code = 0

\* ------------------------------------------------------------------ C15
\* C15: the prompt of every generation request sent for variation i of a
\* concept is the concept's base prompt with an empty suffix exactly when
\* i = 1, and for i > 1 with the hint at 0-based position (i - 2) mod 5 of
\* the five-entry hint list; for i = 2 and for i = 7 alike that is the
\* first hint.
HintPosition(n) == CHOOSE h \in 0..4 : (n - 2 - h) % 5 = 0

ExpectedPrompt(cid, n) ==
    << "CONCEPT_PROMPTS", cid,
       IF n = 1 THEN ""
       ELSE << " Explore a different compositional arrangement.",
               " Try a bolder, more minimal interpretation.",
               " Emphasize the typography more prominently.",
               " Make the mark/icon more abstract and simplified.",
               " Try a horizontal lockup layout." >>[HintPosition(n) + 1] >>

InCall == pc \in {"post_primary", "post_fallback", "parse", "download", "returned"}

C15_PromptOfVariation ==
    (prog = "logo" /\ InCall) =>
        /\ Len(variation_hints) = 5
        /\ payload.prompt = ExpectedPrompt(todo[cpos], i)
        /\ \A k \in 1..Len(reqs) :
                reqs[k].method = "POST" => reqs[k].json.prompt = payload.prompt
        /\ (payload.prompt[3] = "") <=> (i = 1)
        /\ i \in {2, 7} =>
                payload.prompt[3] = " Explore a different compositional arrangement."

\* the fallback request of variation 7 has been sent
C15_Witness ==
    /\ prog = "logo"
    /\ pc = "parse"
    /\ i = 7
    /\ Len(reqs) = 2
    /\ reqs[2].json.prompt[3] = variation_hints[1]

\* ------------------------------------------------------------------ C16
\* C16: the paths computed for the (concept, index) pairs with an index up
\* to MaxIndex are pairwise different, and so are the paths of different
\* round-3 keys; the path of the artifact a loop iteration starts on is the
\* one computed from its pair or key; and a step changes the file system
\* at the path in hand only.
PathTable == [ c \in DOMAIN CONCEPT_DIRS, n \in 1..MaxIndex |-> ConceptPath(c, n) ]

KeyTable == [ k \in DOMAIN AllKeys |-> KeyPath(AllKeys[k]) ]

TablesInjective ==
    /\ \A s, t \in DOMAIN PathTable : s # t => PathTable[s] # PathTable[t]
    /\ \A k, l \in DOMAIN KeyTable :
            AllKeys[k] # AllKeys[l] => KeyTable[k] # KeyTable[l]

C16_OwnPath ==
    /\ TablesInjective
    /\ (pc = "loop" /\ i \in 1..LoopLen) =>
            IF prog = "logo" THEN output_path = PathTable[todo[cpos], i]
            ELSE \E k \in DOMAIN AllKeys :
                    AllKeys[k] = todo[i] /\ output_path = KeyTable[k]

C16_WriteStep ==
    \A p \in DOMAIN fs : fs'[p] # fs[p] => p = output_path

C16_PathInjective == []C16_OwnPath /\ [][C16_WriteStep]_vars

\* the file of variation 100 has been written
C16_Witness ==
    /\ prog = "logo"
    /\ pc = "pace"
    /\ i = 100
    /\ output_path[2] = <<"v", "1", "0", "0", ".png">>
    /\ fs[output_path] = "png"

\* ------------------------------------------------------------------ C17
\* C17: at every point of a run the succeeded count so far equals the
\* number of artifacts that are SkippedExists or Persisted, and an ended
\* run reports 0 <= succeeded <= attempted, with attempted equal to the
\* number of selected concepts times --variations in generate_logo,
\* whatever integer --variations is.
SucceededSoFar ==
    IF prog = "logo" /\ pc \notin {"concept", "done"}
    THEN total_success + success_count
    ELSE Succeeded

C17_CountsAgree ==
    /\ SucceededSoFar
         = Cardinality({ s \in DOMAIN astate : astate[s] \in {"SkippedExists", "Persisted"} })
    /\ pc = "done" =>
            /\ 0 <= Succeeded
            /\ Succeeded <= Attempted
            /\ prog = "logo" => Attempted = Len(todo) * args.variations

\* ------------------------------------------------------------------ C18
\* C18: when the URL follow-up download is answered with a non-success
\* status, generate_image returns a failure (None) and no exception
\* reaches the runner.
C18_DownloadStatusHandled ==
    (LastIs("GET") /\ reqs[Len(reqs)].outcome = "status") =>
        /\ pc = "returned"
        /\ image_bytes = None
        /\ exc = None

\* ------------------------------------------------------------------ C19
\* C19: when a run has ended, in whatever way, every requested artifact is
\* in a terminal state: none is left Pending or Requesting.
C19_EveryArtifactSettled ==
    pc \in {"done", "exited", "crashed"} =>
        \A s \in DOMAIN astate : astate[s] \in TerminalStates

\* ------------------------------------------------------------------ C20
\* C20: in the round-3 runner no key appears twice in keys_to_run, and the
\* reported total is the number of distinct keys matched.
C20_KeysAtMostOnce ==
    (prog = "round3" /\ pc \notin {"start", "exited"}) =>
        /\ \A a, b \in 1..Len(todo) : a # b => todo[a] # todo[b]
        /\ total_attempted = Cardinality({ todo[k] : k \in 1..Len(todo) })

\* ------------------------------------------------------------------ C21
\* C21 as stated: in generate_logo a step takes a pause exactly when it
\* ends an iteration that called generate_image and whose index is below
\* --variations, and no run ends with a pause as the last thing that
\* happened since the latest generation request, that is, every pause is
\* followed by another generation request in the same run.
IterationEnds == pc = "pace" \/ (pc = "loop" /\ i <= LoopLen /\ pc' = "loop")

C21_PauseStep ==
    prog = "logo" =>
        /\ sleeps' > sleeps => IterationEnds
        /\ IterationEnds => ((sleeps' = sleeps + 1) <=> (pc = "pace" /\ i < args.variations))
        /\ IterationEnds => sleeps' \in {sleeps, sleeps + 1}

C21_GeneratedAtPace ==
    (prog = "logo" /\ pc = "pace") => astate[Slot] \in {"Persisted", "Failed"}

C21_RequestFollows ==
    (prog = "logo" /\ pc \in {"done", "crashed"}) => paced # "yes"

C21_IterationFollows ==
    (prog = "logo" /\ sleeps' > sleeps) =>
        /\ pc' = "loop"
        /\ cpos' = cpos
        /\ i' = i + 1
        /\ i' <= args.variations

CallEnded ==
    /\ Len(reqs) >= 1
    /\ \/ pc = "returned"
       \/ pc = "crashed" /\ exc \in {"httpx.HTTPStatusError", "httpx.TransportError"}

\* what the network did in the call that has ended, padded with an answer
\* no call of this run received
Script ==
    [ k \in 1..3 |->
        IF k > Len(reqs) THEN [ outcome |-> "unscripted", body |-> None ]
        ELSE IF reqs[k].outcome # "ok" THEN [ outcome |-> reqs[k].outcome, body |-> None ]
        ELSE IF reqs[k].method = "POST" THEN [ outcome |-> "ok", body |-> response ]
        ELSE [ outcome |-> "ok", body |-> reqs[k].content ] ]

SameRequest(x, y) ==
    /\ x.method = y.method
    /\ x.url = y.url
    /\ x.outcome = y.outcome
    /\ x.method = "POST" => x.json = y.json

C22_CopiesAgree ==
    /\ \A m \in {"POST", "GET"} :
            (ClientTimeout("logo", m) # ClientTimeout("round3", m)) <=> (m = "POST")
    /\ (prog = "logo" /\ CallEnded) =>
            LET r == r3_generate_image(payload.prompt, payload.size, payload.quality, Script)
            IN  /\ Len(r.requests) = Len(reqs)
                /\ \A k \in 1..Len(reqs) : SameRequest(r.requests[k], reqs[k])
                /\ r.result = image_bytes
                /\ r.raised = exc

\* a generate_logo call refused by the primary and served by the fallback
C22_Witness ==
    /\ prog = "logo"
    /\ pc = "returned"
    /\ Len(reqs) = 2
    /\ image_bytes = "png"
    /\ r3_generate_image(payload.prompt, payload.size, payload.quality, Script).result = "png"

\* ------------------------------------------------------------------ C23
\* C23: no path ever holds a zero-length file, and when generate_image has
\* returned empty bytes the iteration ends as a failure: the artifact
\* becomes Failed, no file is written or changed, the succeeded count
\* stays, and the loop goes on.
EmptyReturned == pc = "returned" /\ image_bytes = ""

C23_NoEmptyFile == \A p \in DOMAIN fs : fs[p] # ""

C23_EmptyStep ==
    EmptyReturned =>
        /\ astate'[Slot] = "Failed"
        /\ fs' = fs
        /\ writes' = writes
        /\ mkdirs' = mkdirs
        /\ success_count' = success_count
        /\ total_success' = total_success
        /\ pc' = "pace"

C23_EmptyBytesAreAFailure == []C23_NoEmptyFile /\ [][C23_EmptyStep]_vars

\* a 2xx answer whose b64_json decodes to nothing has been returned
C23_Witness ==
    /\ EmptyReturned
    /\ Len(reqs) = 1
    /\ reqs[1].outcome = "ok"
    /\ response.data[1].b64_json = B64("")

====
